---- MODULE Spec2Model ----
\* tokenator: model-name resolution (models.rs), tokenizer acquisition and
\* encoding (token.rs), prompt input (prompt.rs, utility.rs) and the
\* pipeline of main (main.rs).
EXTENDS Integers, Sequences, FiniteSets, TLC

\* ---------------------------------------------------------------- bounds
MaxLen == 2        \* longest friendly name / requested name, in characters
MaxEntries == 2    \* most entries of a catalog file
MaxRuns == 2       \* invocations of the tool sharing one cache directory

\* ---------------------------------------------------------------- values
Chars == {1, 2}                       \* byte values of the characters used
Strs == UNION {[1..k -> Chars] : k \in 0..MaxLen}
\* Canonical identifiers (the hf field). The code only stores, returns and
\* compares them, so the k-th record of a catalog file names the k-th one.
RepoNames == <<"org/A", "org/B", "org/C", "org/D">>
RepoIds == {RepoNames[i] : i \in 1..MaxEntries}

None == <<>>                          \* Option::None
Some(x) == <<x>>                      \* Option::Some(x)
IsSome(o) == Len(o) = 1
Unwrap(o) == o[1]

Min2(a, b) == IF a <= b THEN a ELSE b
Max2(a, b) == IF a >= b THEN a ELSE b

\* One layer of a miette error chain: the message with its interpolated
\* values. An error is the sequence of its layers, outermost first.
Layer(msg) ==
  [msg |-> msg, name |-> None, hint |-> None, code |-> 0, text |-> "", url |-> None, at |-> 0]

\* ---------------------------------------------------------------- strsim
\* strsim::damerau_levenshtein: unrestricted Damerau-Levenshtein distance
\* (insertion, deletion, substitution, transposition of adjacent characters).
LastRow(a, i, c) ==
  LET S == {k \in 1..(i - 1) : a[k] = c}
  IN IF S = {} THEN 0 ELSE CHOOSE k \in S : \A x \in S : x <= k

RECURSIVE FillDistances(_, _, _, _, _)
FillDistances(a, b, d, i, j) ==
  IF i > Len(a) THEN d
  ELSE IF j > Len(b) THEN FillDistances(a, b, d, i + 1, 1)
  ELSE
    LET cost == IF a[i] = b[j] THEN 0 ELSE 1
        i1 == LastRow(a, i, b[j])
        j1 == LastRow(b, j, a[i])
        base == Min2(Min2(d[<<i - 1, j>>] + 1, d[<<i, j - 1>>] + 1),
                     d[<<i - 1, j - 1>>] + cost)
        v == IF i1 > 0 /\ j1 > 0
             THEN Min2(base, d[<<i1 - 1, j1 - 1>>] + (i - i1 - 1) + 1 + (j - j1 - 1))
             ELSE base
    IN FillDistances(a, b, [d EXCEPT ![<<i, j>>] = v], i, j + 1)

Distance(a, b) ==
  LET d0 == [p \in (0..Len(a)) \X (0..Len(b)) |->
               IF p[1] = 0 THEN p[2] ELSE IF p[2] = 0 THEN p[1] ELSE 0]
  IN FillDistances(a, b, d0, 1, 1)[<<Len(a), Len(b)>>]

\* The distances of all pairs of strings within the bounds, computed once.
DistanceTable == [p \in Strs \X Strs |-> Distance(p[1], p[2])] @@ [p \in {} |-> 0]

damerau_levenshtein(a, b) == DistanceTable[<<a, b>>]

\* strsim::normalized_damerau_levenshtein: 1.0 - distance / max(len), and
\* 1.0 for two empty strings; kept as the exact fraction <<num, den>>.
normalized_damerau_levenshtein(a, b) ==
  IF Len(a) = 0 /\ Len(b) = 0 THEN <<1, 1>>
  ELSE LET m == Max2(Len(a), Len(b))
       IN <<m - damerau_levenshtein(a, b), m>>

\* f64::partial_cmp of two scores
partial_cmp(x, y) ==
  LET l == x[1] * y[2]
      r == y[1] * x[2]
  IN IF l < r THEN "Less" ELSE IF l > r THEN "Greater" ELSE "Equal"

\* ---------------------------------------------------------------- models.rs
\* The catalog file as load_model_name_map finds it: unreadable, text that
\* is not a list of {name, hf} records (the parse fails at record `at`), or
\* a list of records.
Catalogs ==
  UNION {{[i \in 1..k |-> [name |-> names[i], hf |-> RepoNames[i]]] : names \in [1..k -> Strs]}
           : k \in 0..MaxEntries}
UnreadableFile == [kind |-> "unreadable", entries |-> <<>>, at |-> 0]
InvalidFile(n) == [kind |-> "invalid", entries |-> <<>>, at |-> n]
JsonFile(es) == [kind |-> "json", entries |-> es, at |-> 0]
Files ==
  {UnreadableFile} \cup {InvalidFile(n) : n \in 1..MaxEntries}
    \cup {JsonFile(es) : es \in Catalogs}

EmptyMap == [k \in {} |-> ""]
Insert(map, k, v) == [x \in (DOMAIN map) \cup {k} |-> IF x = k THEN v ELSE map[x]]

\* A collect that keeps the first entry of a name
CollectFirstWins(models) ==
  [k \in {models[i].name : i \in DOMAIN models} |->
     models[CHOOSE i \in DOMAIN models :
              models[i].name = k /\ \A j \in DOMAIN models : models[j].name = k => i <= j].hf]

\* Iterator::collect into a HashMap: the entries are inserted in order, a
\* later entry replacing an earlier one of the same name.
RECURSIVE CollectFrom(_, _, _)
CollectFrom(models, i, map) ==
  IF i > Len(models) THEN map
  ELSE CollectFrom(models, i + 1, Insert(map, models[i].name, models[i].hf))

Collect(models) == CollectFrom(models, 1, EmptyMap)

\* load_model_name_map refusing a list without entries
load_model_name_map_empty_is_error(file) ==
  IF file.kind = "unreadable"
  THEN [ok |-> FALSE, map |-> EmptyMap, warned |-> FALSE,
        err |-> <<Layer("Reading models JSON file"), Layer("io error")>>]
  ELSE IF file.kind = "invalid" \/ file.entries = <<>>
  THEN [ok |-> FALSE, map |-> EmptyMap, warned |-> FALSE,
        err |-> <<Layer("Parsing models JSON file"),
                  [Layer("missing field hf") EXCEPT !.at = file.at]>>]
  ELSE [ok |-> TRUE, map |-> Collect(file.entries), warned |-> FALSE, err |-> <<>>]

load_model_name_map(file) ==
  IF file.kind = "unreadable"
  THEN [ok |-> FALSE, map |-> EmptyMap, warned |-> FALSE,
        err |-> <<Layer("Reading models JSON file"), Layer("io error")>>]
  ELSE IF file.kind = "invalid"
  THEN [ok |-> FALSE, map |-> EmptyMap, warned |-> FALSE,
        err |-> <<Layer("Parsing models JSON file"),
                  [Layer("missing field hf") EXCEPT !.at = file.at]>>]
  ELSE [ok |-> TRUE, map |-> Collect(file.entries), warned |-> file.entries = <<>>,
        err |-> <<>>]

\* The orders in which a HashMap with ahash::RandomState may iterate its keys.
Orders(keys) ==
  {o \in [1..Cardinality(keys) -> keys] : \A i, j \in DOMAIN o : o[i] = o[j] => i = j}

\* Iterator::max_by: of several maximal elements the last one is returned.
RECURSIVE MaxByFrom(_, _, _, _)
MaxByFrom(order, input_name, i, best) ==
  IF i > Len(order) THEN best
  ELSE
    LET cmp == partial_cmp(normalized_damerau_levenshtein(best, input_name),
                           normalized_damerau_levenshtein(order[i], input_name))
    IN MaxByFrom(order, input_name, i + 1, IF cmp = "Greater" THEN best ELSE order[i])

\* Iterator::min_by in the place of max_by
RECURSIVE MinByFrom(_, _, _, _)
MinByFrom(order, input_name, i, best) ==
  IF i > Len(order) THEN best
  ELSE
    LET cmp == partial_cmp(normalized_damerau_levenshtein(best, input_name),
                           normalized_damerau_levenshtein(order[i], input_name))
    IN MinByFrom(order, input_name, i + 1, IF cmp = "Greater" THEN order[i] ELSE best)

model_name_suggestion_min(order, input_name) ==
  IF order = <<>> THEN None ELSE Some(MinByFrom(order, input_name, 2, order[1]))

\* model_name_suggestion answering with the requested name
model_name_suggestion_echo(order, input_name) == Some(input_name)

\* model_name_suggestion; `order` is the iteration order of model_name_map.
model_name_suggestion(order, input_name) ==
  IF order = <<>> THEN None ELSE Some(MaxByFrom(order, input_name, 2, order[1]))

\* Ord for String: lexicographic by bytes, a proper prefix first.
RECURSIVE StrLess(_, _)
StrLess(a, b) ==
  IF b = <<>> THEN FALSE
  ELSE IF a = <<>> THEN TRUE
  ELSE IF Head(a) # Head(b) THEN Head(a) < Head(b)
  ELSE StrLess(Tail(a), Tail(b))

RECURSIVE InsertSorted(_, _)
InsertSorted(sorted, x) ==
  IF sorted = <<>> THEN <<x>>
  ELSE IF StrLess(x, Head(sorted)) THEN <<x>> \o sorted
  ELSE <<Head(sorted)>> \o InsertSorted(Tail(sorted), x)

\* slice::sort
RECURSIVE Sort(_)
Sort(seq) == IF seq = <<>> THEN <<>> ELSE InsertSorted(Sort(SubSeq(seq, 1, Len(seq) - 1)), seq[Len(seq)])

\* get_model_name without options.sort()
get_model_name_unsorted(order, select) ==
  IF select = 0
  THEN [ok |-> FALSE, value |-> <<>>, options |-> order,
        err |-> <<Layer("Getting user model choice"), Layer("inquire error")>>]
  ELSE [ok |-> TRUE, value |-> order[select], options |-> order, err |-> <<>>]

\* get_model_name; `select` is what Select::prompt does: 0 when it fails
\* (no terminal, cancelled), k when the user picks the k-th option shown.
get_model_name(order, select) ==
  LET options == Sort(order)
  IN IF select = 0
     THEN [ok |-> FALSE, value |-> <<>>, options |-> options,
           err |-> <<Layer("Getting user model choice"), Layer("inquire error")>>]
     ELSE [ok |-> TRUE, value |-> options[select], options |-> options, err |-> <<>>]

Failed(err, warned, shown, events) ==
  [ok |-> FALSE, value |-> "", err |-> err, warned |-> warned, shown |-> shown,
   events |-> events]

\* The tail of get_repo_id: the lookup of model_name and the suggestion.
Lookup(map, order, model_name, shown, events) ==
  IF model_name \in DOMAIN map
  THEN [ok |-> TRUE, value |-> map[model_name], err |-> <<>>, warned |-> FALSE,
        shown |-> shown, events |-> events \o <<"get">>]
  ELSE Failed(<<[Layer("No model matching") EXCEPT
                   !.name = Some(model_name),
                   !.hint = model_name_suggestion(order, model_name)]>>,
              FALSE, shown, events \o <<"get", "model_name_suggestion">>)

\* get_repo_id that answers with the first entry it iterates
get_repo_id_any(model_name, file, order, select) ==
  LET loaded == load_model_name_map(file)
  IN IF ~loaded.ok \/ order = <<>>
     THEN Failed(loaded.err, loaded.warned, <<>>, <<"load_model_name_map">>)
     ELSE [ok |-> TRUE, value |-> loaded.map[order[1]], err |-> <<>>, warned |-> FALSE,
           shown |-> <<>>, events |-> <<"load_model_name_map", "is_empty", "get">>]

\* get_repo_id without the is_empty check
get_repo_id_no_empty_check(model_name, file, order, select) ==
  LET loaded == load_model_name_map(file)
      events == <<"load_model_name_map">>
  IN IF ~loaded.ok THEN Failed(loaded.err, FALSE, <<>>, events)
     ELSE IF IsSome(model_name)
     THEN Lookup(loaded.map, order, Unwrap(model_name), <<>>, events)
     ELSE
       LET chosen == get_model_name(order, IF order = <<>> THEN 0 ELSE select)
       IN IF ~chosen.ok
          THEN Failed(chosen.err, loaded.warned, <<chosen.options>>,
                      events \o <<"get_model_name">>)
          ELSE Lookup(loaded.map, order, chosen.value, <<chosen.options>>,
                      events \o <<"get_model_name">>)

\* get_repo_id(model_name, model_map_path): `file` is the content found at
\* the path, `order` the iteration order of the loaded map and `select` the
\* outcome of the interactive chooser. The result carries what the call
\* returned, whether log::warn! fired, the option lists shown by the
\* chooser and the calls made, in order.
get_repo_id(model_name, file, order, select) ==
  LET loaded == load_model_name_map(file)
      events == <<"load_model_name_map">>
  IN IF ~loaded.ok THEN Failed(loaded.err, FALSE, <<>>, events)
     ELSE IF DOMAIN loaded.map = {}
     THEN Failed(<<Layer("Error: no models in model file")>>, loaded.warned, <<>>,
                 events \o <<"is_empty">>)
     ELSE IF IsSome(model_name)
     THEN Lookup(loaded.map, order, Unwrap(model_name), <<>>, events \o <<"is_empty">>)
     ELSE
       LET chosen == get_model_name(order, select)
       IN IF ~chosen.ok
          THEN Failed(chosen.err, FALSE, <<chosen.options>>,
                      events \o <<"is_empty", "get_model_name">>)
          ELSE Lookup(loaded.map, order, chosen.value, <<chosen.options>>,
                      events \o <<"is_empty", "get_model_name">>)

\* ---------------------------------------------------------------- token.rs
\* The content of a tokenizer.json: whether Tokenizer::from_file accepts it
\* and how many special tokens its post-processor adds to an encoding.
Artifacts == [valid : BOOLEAN, specials : {0, 1}]

\* What the remote source does with one request: a transport failure (with
\* or without a known URL), a rejecting status, a local I/O failure while
\* storing, or the file.
NoArtifact == [valid |-> FALSE, specials |-> 0]
NetOutcome(kind, url, code, text, artifact) ==
  [kind |-> kind, url |-> url, code |-> code, text |-> text, artifact |-> artifact]
NetOutcomes ==
  {NetOutcome("transport", u, 0, "", NoArtifact) : u \in {None, Some("https://huggingface.co")}}
    \cup {NetOutcome("status", None, 404, "Not Found", NoArtifact),
          NetOutcome("status", None, 401, "Unauthorized", NoArtifact),
          NetOutcome("io", None, 0, "", NoArtifact)}
    \cup {NetOutcome("ok", None, 200, "OK", a) : a \in Artifacts}

\* hf_hub::api::sync::ApiError as the cause layer of a chain
ApiError(net) ==
  IF net.kind = "transport"
  THEN [Layer("request error: transport") EXCEPT !.url = net.url]
  ELSE IF net.kind = "status"
  THEN [Layer("request error: status") EXCEPT !.code = net.code, !.text = net.text]
  ELSE Layer("I/O error")

\* ApiRepo::get("tokenizer.json") at revision main: the cached file when the
\* cache holds one, a download that stores the file otherwise. `cached` is
\* the cache entry of the repo (an Option), `net` the outcome of the request
\* should one be made.
RepoGetAlwaysDownload(cached, net) ==
  IF net.kind = "ok"
  THEN [ok |-> TRUE, file |-> net.artifact, cached |-> Some(net.artifact), requests |-> 1,
        stored |-> 1, cause |-> Layer("")]
  ELSE [ok |-> FALSE, file |-> NoArtifact, cached |-> cached, requests |-> 1, stored |-> 0,
        cause |-> ApiError(net)]

\* A download that is not written to the cache
RepoGetNoStore(cached, net) ==
  IF IsSome(cached)
  THEN [ok |-> TRUE, file |-> Unwrap(cached), cached |-> cached, requests |-> 0,
        stored |-> 0, cause |-> Layer("")]
  ELSE IF net.kind = "ok"
  THEN [ok |-> TRUE, file |-> net.artifact, cached |-> cached, requests |-> 1,
        stored |-> 1, cause |-> Layer("")]
  ELSE [ok |-> FALSE, file |-> NoArtifact, cached |-> cached, requests |-> 1,
        stored |-> 0, cause |-> ApiError(net)]

RepoGet(cached, net) ==
  IF IsSome(cached)
  THEN [ok |-> TRUE, file |-> Unwrap(cached), cached |-> cached, requests |-> 0,
        stored |-> 0, cause |-> Layer("")]
  ELSE IF net.kind = "ok"
  THEN [ok |-> TRUE, file |-> net.artifact, cached |-> Some(net.artifact), requests |-> 1,
        stored |-> 1, cause |-> Layer("")]
  ELSE [ok |-> FALSE, file |-> NoArtifact, cached |-> cached, requests |-> 1,
        stored |-> 0, cause |-> ApiError(net)]

Tokenizer(repo_id, artifact) == [repo |-> repo_id, specials |-> artifact.specials]
NoTokenizer == [repo |-> "", specials |-> 0]

\* The context wrapped around a failed repo.get, with the cause dropped
FetchErrorBare(cause) == <<Layer("fetching tokeniser file")>>

\* .into_diagnostic().wrap_err("fetching tokeniser file")
FetchError(cause) == <<Layer("fetching tokeniser file"), cause>>

\* create_tokeniser(repo_id); `build` is whether ApiBuilder::build succeeds.
create_tokeniser(repo_id, cached, build, net) ==
  IF ~build
  THEN [ok |-> FALSE, value |-> NoTokenizer, cached |-> cached, requests |-> 0, stored |-> 0,
        err |-> <<Layer("building API"), Layer("I/O error")>>]
  ELSE
    LET got == RepoGet(cached, net)
    IN IF ~got.ok
       THEN [ok |-> FALSE, value |-> NoTokenizer, cached |-> got.cached,
             requests |-> got.requests, stored |-> got.stored, err |-> FetchError(got.cause)]
       ELSE IF ~got.file.valid
       THEN [ok |-> FALSE, value |-> NoTokenizer, cached |-> got.cached,
             requests |-> got.requests, stored |-> got.stored,
             err |-> <<Layer("Initialising tokeniser")>>]
       ELSE [ok |-> TRUE, value |-> Tokenizer(repo_id, got.file), cached |-> got.cached,
             requests |-> got.requests, stored |-> got.stored, err |-> <<>>]

\* A text by what the code reads of it: its length in bytes and whether
\* trim() leaves nothing.
Text(len, blank) == [len |-> len, blank |-> blank]
NoText == Text(0, TRUE)

\* Tokenizer::encode_fast(prompt, add_special_tokens).get_ids().len() for a
\* byte-level vocabulary: one id per byte, plus the special tokens.
EncodedIds(tokeniser, prompt, add_special_tokens) ==
  prompt.len + (IF add_special_tokens THEN tokeniser.specials ELSE 0)

\* count_tokens encoding without special tokens
count_tokens_no_specials(tokeniser, prompt, enc) ==
  IF ~enc THEN [ok |-> FALSE, value |-> 0, err |-> <<Layer("Encoding prompt")>>]
  ELSE [ok |-> TRUE, value |-> EncodedIds(tokeniser, prompt, FALSE), err |-> <<>>]

\* count_tokens(tokeniser, prompt); `enc` is whether encode_fast succeeds.
count_tokens(tokeniser, prompt, enc) ==
  IF ~enc THEN [ok |-> FALSE, value |-> 0, err |-> <<Layer("Encoding prompt")>>]
  ELSE [ok |-> TRUE, value |-> EncodedIds(tokeniser, prompt, TRUE), err |-> <<>>]

\* ---------------------------------------------------------------- utility.rs, prompt.rs
MaxFileSize == 10485760
MaxPromptLen == 20048000

\* A path as read_file finds it: fs::metadata fails, or the file has `text`
\* and fs::read_to_string succeeds or fails.
PathState(meta, read, text) == [meta |-> meta, read |-> read, text |-> text]

read_file(path) ==
  IF ~path.meta
  THEN [ok |-> FALSE, value |-> NoText, warned |-> FALSE,
        err |-> <<Layer("Error opening file"), Layer("io error")>>]
  ELSE IF path.text.len > MaxFileSize
  THEN [ok |-> FALSE, value |-> NoText, warned |-> FALSE, err |-> <<Layer("File is too large.")>>]
  ELSE IF ~path.read
  THEN [ok |-> FALSE, value |-> NoText, warned |-> path.text.len = 0,
        err |-> <<Layer("Error reading file"), Layer("io error")>>]
  ELSE [ok |-> TRUE, value |-> path.text, warned |-> path.text.len = 0, err |-> <<>>]

\* get_prompt taking the inline string first
get_prompt_inline_first(file, prompt) ==
  LET read == IF IsSome(prompt)
              THEN [ok |-> TRUE, value |-> Unwrap(prompt), warned |-> FALSE, err |-> <<>>]
              ELSE IF IsSome(file) THEN read_file(Unwrap(file))
              ELSE [ok |-> FALSE, value |-> NoText, warned |-> FALSE,
                    err |-> <<Layer("Supply a file containing the prompt text or the prompt as a string")>>]
  IN IF ~read.ok THEN [ok |-> FALSE, value |-> NoText, err |-> read.err]
     ELSE IF read.value.blank
     THEN [ok |-> FALSE, value |-> NoText, err |-> <<Layer("Missing a prompt value")>>]
     ELSE IF read.value.len > MaxPromptLen
     THEN [ok |-> FALSE, value |-> NoText, err |-> <<Layer("Prompt context is too large")>>]
     ELSE [ok |-> TRUE, value |-> read.value, err |-> <<>>]

\* get_prompt(file, prompt): both are Options.
get_prompt(file, prompt) ==
  LET read == IF IsSome(file) THEN read_file(Unwrap(file))
              ELSE IF IsSome(prompt)
              THEN [ok |-> TRUE, value |-> Unwrap(prompt), warned |-> FALSE, err |-> <<>>]
              ELSE [ok |-> FALSE, value |-> NoText, warned |-> FALSE,
                    err |-> <<Layer("Supply a file containing the prompt text or the prompt as a string")>>]
  IN IF ~read.ok THEN [ok |-> FALSE, value |-> NoText, err |-> read.err]
     ELSE IF read.value.blank
     THEN [ok |-> FALSE, value |-> NoText, err |-> <<Layer("Missing a prompt value")>>]
     ELSE IF read.value.len > MaxPromptLen
     THEN [ok |-> FALSE, value |-> NoText, err |-> <<Layer("Prompt context is too large")>>]
     ELSE [ok |-> TRUE, value |-> read.value, err |-> <<>>]

\* ---------------------------------------------------------------- main.rs
VARIABLES
  cache,      \* the hf_hub cache directory: repo id -> Option of tokenizer.json at main
  requests,   \* per repo id, the requests made to the remote source so far
  stored,     \* per repo id, the downloads completed and written to the cache
  runs,       \* the invocation of the tool now running (1..MaxRuns)
  pc,         \* the statement of main the invocation is at
  call,       \* the arguments and environment of the last call main made
  ret,        \* what that call returned
  repo_id, tokeniser, prompt, tokens,  \* the locals of main (Options)
  steps,      \* the calls main made in this invocation, in order
  stdout,     \* the token count printed (an Option)
  stderr,     \* the error chain reported (empty when none)
  exit        \* the exit status, -1 while running

vars == <<cache, requests, stored, runs, pc, call, ret, repo_id, tokeniser, prompt, tokens,
          steps, stdout, stderr, exit>>

NoCall == [op |-> "none"]
NoRet == [ok |-> TRUE]

\* The inputs an invocation of the whole pipeline draws from.
RunCatalog == <<[name |-> <<1>>, hf |-> "org/A"], [name |-> <<2>>, hf |-> "org/B"]>>
RunFiles ==
  {UnreadableFile, InvalidFile(1)} \cup {JsonFile(SubSeq(RunCatalog, 1, k)) : k \in 0..2}
RunModels == {None, Some(<<1>>), Some(<<2>>), Some(<<1, 1>>)}
Models == {None} \cup {Some(n) : n \in Strs}
Texts ==
  {Text(0, TRUE), Text(1, TRUE), Text(1, FALSE), Text(MaxFileSize, FALSE),
   Text(MaxFileSize + 1, FALSE), Text(MaxPromptLen, FALSE), Text(MaxPromptLen + 1, FALSE)}
Paths ==
  {PathState(FALSE, FALSE, NoText)} \cup {PathState(TRUE, r, t) : r \in BOOLEAN, t \in Texts}
OptionOf(S) == {None} \cup {Some(x) : x \in S}

RunLocals ==
  /\ pc = "get_repo_id"
  /\ call = NoCall
  /\ ret = NoRet
  /\ repo_id = None
  /\ tokeniser = None
  /\ prompt = None
  /\ tokens = None
  /\ steps = <<>>
  /\ stdout = None
  /\ stderr = <<>>
  /\ exit = -1

Init ==
  /\ cache = [r \in RepoIds |-> None]
  /\ requests = [r \in RepoIds |-> 0]
  /\ stored = [r \in RepoIds |-> 0]
  /\ runs = 1
  /\ RunLocals

\* An Err that is logged and passed over: main goes on to print
FailAndGoOn(result) ==
  /\ pc' = "println"
  /\ stderr' = result.err
  /\ exit' = exit

\* `?` on an Err in main: the report goes to stderr and the process ends
\* with status 1.
Fail(result) ==
  /\ pc' = "exited"
  /\ stderr' = result.err
  /\ exit' = 1

\* main.rs:39  let repo_id = get_repo_id(model.as_ref(), None)?;
GetRepoIdOver(files, models) ==
  /\ pc = "get_repo_id"
  /\ \E file \in files, model_name \in models :
       LET keys == DOMAIN load_model_name_map(file).map
           picks == IF IsSome(model_name) THEN {0} ELSE 0..Cardinality(keys)
       IN \E order \in Orders(keys), select \in picks :
            LET result == get_repo_id(model_name, file, order, select)
            IN /\ call' = [op |-> "get_repo_id", model_name |-> model_name, file |-> file,
                            select |-> select]
               /\ ret' = result
               /\ steps' = Append(steps, "get_repo_id")
               /\ IF result.ok
                  THEN /\ repo_id' = Some(result.value)
                       /\ pc' = "create_tokeniser"
                       /\ UNCHANGED <<stderr, exit>>
                  ELSE /\ Fail(result)
                       /\ UNCHANGED repo_id
  /\ UNCHANGED <<cache, requests, stored, runs, tokeniser, prompt, tokens, stdout>>

GetRepoId == GetRepoIdOver(RunFiles, RunModels)

\* main.rs:40  let tokeniser = create_tokeniser(&repo_id)?;
CreateTokeniser ==
  /\ pc = "create_tokeniser"
  /\ \E build \in BOOLEAN, net \in NetOutcomes :
       LET id == Unwrap(repo_id)
           result == create_tokeniser(id, cache[id], build, net)
       IN /\ call' = [op |-> "create_tokeniser", repo_id |-> id, cached |-> cache[id],
                      build |-> build, net |-> net]
          /\ ret' = result
          /\ cache' = [cache EXCEPT ![id] = result.cached]
          /\ requests' = [requests EXCEPT ![id] = @ + result.requests]
          /\ stored' = [stored EXCEPT ![id] = @ + result.stored]
          /\ steps' = Append(steps, "create_tokeniser")
          /\ IF result.ok
             THEN /\ tokeniser' = Some(result.value)
                  /\ pc' = "get_prompt"
                  /\ UNCHANGED <<stderr, exit>>
             ELSE /\ Fail(result)
                  /\ UNCHANGED tokeniser
  /\ UNCHANGED <<runs, repo_id, prompt, tokens, stdout>>

\* main.rs:41  let prompt = get_prompt(file.clone(), prompt.as_deref())?;
GetPrompt ==
  /\ pc = "get_prompt"
  /\ \E file \in OptionOf(Paths), text \in OptionOf(Texts) :
       LET result == get_prompt(file, text)
       IN /\ call' = [op |-> "get_prompt", file |-> file, prompt |-> text]
          /\ ret' = result
          /\ steps' = Append(steps, "get_prompt")
          /\ IF result.ok
             THEN /\ prompt' = Some(result.value)
                  /\ pc' = "count_tokens"
                  /\ UNCHANGED <<stderr, exit>>
             ELSE /\ Fail(result)
                  /\ UNCHANGED prompt
  /\ UNCHANGED <<cache, requests, stored, runs, repo_id, tokeniser, tokens, stdout>>

\* main.rs:42  let tokens = count_tokens(&tokeniser, &prompt)?;
CountTokens ==
  /\ pc = "count_tokens"
  /\ \E enc \in BOOLEAN :
       LET result == count_tokens(Unwrap(tokeniser), Unwrap(prompt), enc)
       IN /\ call' = [op |-> "count_tokens", tokeniser |-> Unwrap(tokeniser),
                      prompt |-> Unwrap(prompt), enc |-> enc]
          /\ ret' = result
          /\ steps' = Append(steps, "count_tokens")
          /\ IF result.ok
             THEN /\ tokens' = Some(result.value)
                  /\ pc' = "println"
                  /\ UNCHANGED <<stderr, exit>>
             ELSE /\ Fail(result)
                  /\ UNCHANGED tokens
  /\ UNCHANGED <<cache, requests, stored, runs, repo_id, tokeniser, prompt, stdout>>

\* main.rs:44-46  println!(...); Ok(())
Println ==
  /\ pc = "println"
  /\ stdout' = tokens
  /\ steps' = Append(steps, "println")
  /\ pc' = "exited"
  /\ exit' = 0
  /\ UNCHANGED <<cache, requests, stored, runs, call, ret, repo_id, tokeniser, prompt, tokens,
                 stderr>>

\* The tool is invoked again with the same cache directory.
NewRun ==
  /\ pc = "exited"
  /\ runs < MaxRuns
  /\ runs' = runs + 1
  /\ pc' = "get_repo_id"
  /\ call' = NoCall
  /\ ret' = NoRet
  /\ repo_id' = None
  /\ tokeniser' = None
  /\ prompt' = None
  /\ tokens' = None
  /\ steps' = <<>>
  /\ stdout' = None
  /\ stderr' = <<>>
  /\ exit' = -1
  /\ UNCHANGED <<cache, requests, stored>>

Next == GetRepoId \/ CreateTokeniser \/ GetPrompt \/ CountTokens \/ Println \/ NewRun

Spec == Init /\ [][Next]_vars

\* get_repo_id alone, over every catalog file and requested name within the
\* bounds.
InitResolve ==
  /\ cache = [r \in RepoIds |-> None]
  /\ requests = [r \in RepoIds |-> 0]
  /\ stored = [r \in RepoIds |-> 0]
  /\ runs = 1
  /\ pc = "get_repo_id"
  /\ \E file \in Files, model_name \in Models :
       call = [op |-> "main", model_name |-> model_name, file |-> file]
  /\ ret = NoRet
  /\ repo_id = None
  /\ tokeniser = None
  /\ prompt = None
  /\ tokens = None
  /\ steps = <<>>
  /\ stdout = None
  /\ stderr = <<>>
  /\ exit = -1

Resolve == GetRepoIdOver({call.file}, {call.model_name})

SpecResolve == InitResolve /\ [][Resolve]_vars

\* A further call of get_repo_id with the same model file and the same
\* requested name: load_model_name_map builds a new HashMap (a new
\* ahash::RandomState), so the iteration order is drawn afresh.
ResolveAgain ==
  /\ call.op = "get_repo_id"
  /\ runs < MaxRuns
  /\ runs' = runs + 1
  /\ LET keys == DOMAIN load_model_name_map(call.file).map
         picks == IF IsSome(call.model_name) THEN {0} ELSE 0..Cardinality(keys)
     IN \E order \in Orders(keys), select \in picks :
          LET result == get_repo_id(call.model_name, call.file, order, select)
          IN /\ call' = [call EXCEPT !.select = select]
             /\ ret' = result
             /\ steps' = <<"get_repo_id">>
             /\ IF result.ok
                THEN /\ repo_id' = Some(result.value)
                     /\ pc' = "create_tokeniser"
                     /\ stderr' = <<>>
                     /\ exit' = -1
                ELSE /\ Fail(result)
                     /\ repo_id' = None
  /\ UNCHANGED <<cache, requests, stored, tokeniser, prompt, tokens, stdout>>

SpecRerun == InitResolve /\ [][Resolve \/ ResolveAgain]_vars

\* load_model_name_map alone, over every catalog file within the bounds.
InitLoad ==
  /\ cache = [r \in RepoIds |-> None]
  /\ requests = [r \in RepoIds |-> 0]
  /\ stored = [r \in RepoIds |-> 0]
  /\ runs = 1
  /\ pc = "load_model_name_map"
  /\ \E file \in Files : call = [op |-> "main", file |-> file]
  /\ ret = NoRet
  /\ repo_id = None
  /\ tokeniser = None
  /\ prompt = None
  /\ tokens = None
  /\ steps = <<>>
  /\ stdout = None
  /\ stderr = <<>>
  /\ exit = -1

\* models.rs:98  let model_name_map = load_model_name_map(&model_map_path)?;
LoadModelNameMap ==
  /\ pc = "load_model_name_map"
  /\ call' = [op |-> "load_model_name_map", file |-> call.file]
  /\ ret' = load_model_name_map(call.file)
  /\ pc' = "is_empty"
  /\ UNCHANGED <<cache, requests, stored, runs, repo_id, tokeniser, prompt, tokens, steps,
                 stdout, stderr, exit>>

SpecLoad == InitLoad /\ [][LoadModelNameMap]_vars

\* count_tokens alone, over every tokenizer handle and over texts that
\* include the empty one.
Handles == {Tokenizer(r, a) : r \in RepoIds, a \in {x \in Artifacts : x.valid}}
CountTexts == Texts \cup {Text(n, b) : n \in 1..MaxLen, b \in BOOLEAN}

InitCount ==
  /\ cache = [r \in RepoIds |-> None]
  /\ requests = [r \in RepoIds |-> 0]
  /\ stored = [r \in RepoIds |-> 0]
  /\ runs = 1
  /\ pc = "count_tokens"
  /\ call = [op |-> "main"]
  /\ ret = NoRet
  /\ repo_id = None
  /\ tokeniser \in {Some(h) : h \in Handles}
  /\ prompt \in {Some(t) : t \in CountTexts}
  /\ tokens = None
  /\ steps = <<>>
  /\ stdout = None
  /\ stderr = <<>>
  /\ exit = -1

SpecCount == InitCount /\ [][CountTokens]_vars

\* ---------------------------------------------------------------- properties
\* The state right after get_repo_id returned.
Resolved == call.op = "get_repo_id"
CatalogEntries == call.file.entries
CatalogNames == {CatalogEntries[i].name : i \in DOMAIN CatalogEntries}
UniqueNames ==
  \A i, j \in DOMAIN CatalogEntries : CatalogEntries[i].name = CatalogEntries[j].name => i = j
Requested == Unwrap(call.model_name)
IsNoMatchingModelError(err) == Len(err) = 1 /\ err[1].msg = "No model matching"
IsEmptyCatalogError(err) == err = <<Layer("Error: no models in model file")>>

\* C1: for a catalog of N >= 1 well-formed entries with unique names and a
\* requested name that is the name of an entry, get_repo_id succeeds and
\* returns exactly the hf of that entry.
C1_ResolvesPresentName ==
  (/\ Resolved
   /\ call.file.kind = "json"
   /\ Len(CatalogEntries) >= 1
   /\ UniqueNames
   /\ IsSome(call.model_name))
  => \A i \in DOMAIN CatalogEntries :
       CatalogEntries[i].name = Requested => ret.ok /\ ret.value = CatalogEntries[i].hf

C1_Witness ==
  /\ Resolved
  /\ call.file.kind = "json"
  /\ Len(CatalogEntries) = 2
  /\ UniqueNames
  /\ call.model_name = Some(CatalogEntries[2].name)
  /\ ret.ok
  /\ ret.value = RepoNames[2]

\* C2: for a non-empty registry and a requested name that is not a key of
\* it, get_repo_id fails with the no-matching-model error carrying the
\* requested name, and a suggestion, when attached, is a name of the registry.
C2_AbsentNameFails ==
  (/\ Resolved
   /\ call.file.kind = "json"
   /\ Len(CatalogEntries) >= 1
   /\ IsSome(call.model_name)
   /\ Requested \notin CatalogNames)
  => /\ ~ret.ok
     /\ IsNoMatchingModelError(ret.err)
     /\ ret.err[1].name = Some(Requested)
     /\ IsSome(ret.err[1].hint) => Unwrap(ret.err[1].hint) \in CatalogNames

C2_Witness ==
  /\ Resolved
  /\ call.file.kind = "json"
  /\ Len(CatalogEntries) = 2
  /\ IsSome(call.model_name)
  /\ Requested \notin CatalogNames
  /\ IsNoMatchingModelError(ret.err)
  /\ IsSome(ret.err[1].hint)
  /\ Unwrap(ret.err[1].hint) = CatalogEntries[1].name

\* C3: on an empty registry get_repo_id fails with the empty-catalog error
\* whether a name was requested or not, and it does so right after the
\* is_empty check: no lookup, no suggestion and no chooser came before.
C3_EmptyRegistryFailsFirst ==
  (Resolved /\ call.file.kind = "json" /\ CatalogEntries = <<>>)
  => /\ ~ret.ok
     /\ IsEmptyCatalogError(ret.err)
     /\ ret.events = <<"load_model_name_map", "is_empty">>
     /\ ret.shown = <<>>

C3_Witness ==
  /\ Resolved
  /\ call.file.kind = "json"
  /\ CatalogEntries = <<>>
  /\ call.model_name = None
  /\ IsEmptyCatalogError(ret.err)

\* C4: the suggestion attached to a no-matching-model error has the maximum
\* similarity to the requested name: no name of the registry scores
\* strictly higher than it.
C4_SuggestionIsMaximal ==
  (Resolved /\ ~ret.ok /\ IsNoMatchingModelError(ret.err) /\ IsSome(ret.err[1].hint))
  => \A k \in CatalogNames :
       partial_cmp(normalized_damerau_levenshtein(k, Requested),
                   normalized_damerau_levenshtein(Unwrap(ret.err[1].hint), Requested))
         # "Greater"

C4_Witness ==
  /\ Resolved
  /\ ~ret.ok
  /\ IsNoMatchingModelError(ret.err)
  /\ IsSome(ret.err[1].hint)
  /\ \E k \in CatalogNames :
       partial_cmp(normalized_damerau_levenshtein(k, Requested),
                   normalized_damerau_levenshtein(Unwrap(ret.err[1].hint), Requested))
         = "Less"

\* The state right after create_tokeniser returned.
Acquired == call.op = "create_tokeniser"

C6_AtMostOneRequest == \A r \in RepoIds : requests[r] <= 1

\* C6 as amended: the tokenizer.json of a repo is downloaded into the cache
\* at most once, and once the cache holds it (valid or not) no invocation
\* asks the remote source for it again or replaces it; a fetch that fails
\* stores nothing.
C6_AtMostOneDownload ==
  [][\A r \in RepoIds :
       /\ stored'[r] <= 1
       /\ IsSome(cache[r]) => requests'[r] = requests[r] /\ cache'[r] = cache[r]
       /\ (stored'[r] = 1) = IsSome(cache'[r])]_vars

C6_Witness ==
  /\ runs = 2
  /\ Acquired
  /\ stored[call.repo_id] = 1
  /\ requests[call.repo_id] = 2
  /\ call.cached = None
  /\ ret.ok

\* The calls of main, in the order of the source.
Pipeline == <<"get_repo_id", "create_tokeniser", "get_prompt", "count_tokens", "println">>

\* C7: the calls of main happen in the order load, resolution, acquisition,
\* (prompt,) encoding, each after the one before succeeded; after a failure
\* no later call is made, none is repeated, nothing is printed and the exit
\* status is 1; a count is printed only after every call succeeded.
C7_StrictPipeline ==
  /\ Len(steps) <= Len(Pipeline) /\ steps = SubSeq(Pipeline, 1, Len(steps))
  /\ call.op = "get_repo_id" => ret.events[1] = "load_model_name_map"
  /\ (call.op = "get_repo_id" /\ call.file.kind # "json") => ret.events = <<"load_model_name_map">>
  /\ Len(steps) >= 2 => IsSome(repo_id)
  /\ Len(steps) >= 3 => IsSome(tokeniser)
  /\ Len(steps) >= 4 => IsSome(prompt)
  /\ Len(steps) >= 5 => IsSome(tokens)
  /\ (call.op # "none" /\ ~ret.ok) =>
       /\ pc = "exited"
       /\ exit = 1
       /\ stderr = ret.err
       /\ stderr # <<>>
       /\ steps[Len(steps)] = call.op
  /\ exit = 1 => stdout = None /\ ~ret.ok
  /\ IsSome(stdout) => exit = 0 /\ steps = Pipeline /\ stdout = tokens /\ stderr = <<>>
  /\ pc = "exited" => exit \in {0, 1} /\ (exit = 0) = IsSome(stdout)
  /\ pc # "exited" => exit = -1 /\ stdout = None /\ pc = Pipeline[Len(steps) + 1]

C7_Witness ==
  /\ pc = "exited"
  /\ exit = 1
  /\ steps = <<"get_repo_id", "create_tokeniser">>
  /\ stdout = None

\* C8: with a requested name the chooser is never invoked; without one, on
\* a non-empty registry, it is invoked exactly once, with every friendly
\* name once and in sorted order, and get_repo_id returns the hf of the
\* chosen name, or the chooser's failure; it never ends in the
\* no-matching-model error. No other path invokes the chooser.
C8_ChooserOnlyWithoutName ==
  Resolved =>
    IF call.file.kind = "json" /\ CatalogEntries # <<>> /\ call.model_name = None
    THEN /\ Len(ret.shown) = 1
         /\ Len(ret.shown[1]) = Cardinality(CatalogNames)
         /\ {ret.shown[1][i] : i \in DOMAIN ret.shown[1]} = CatalogNames
         /\ \A i, j \in DOMAIN ret.shown[1] : i < j => StrLess(ret.shown[1][i], ret.shown[1][j])
         /\ ret.ok = (call.select # 0)
         /\ ret.ok =>
              \E i \in DOMAIN CatalogEntries :
                /\ CatalogEntries[i].name = ret.shown[1][call.select]
                /\ CatalogEntries[i].hf = ret.value
         /\ ~ret.ok =>
              /\ ret.err[1].msg = "Getting user model choice"
              /\ ~IsNoMatchingModelError(ret.err)
    ELSE /\ ret.shown = <<>>
         /\ \A i \in DOMAIN ret.events : ret.events[i] # "get_model_name"

C8_Witness ==
  /\ Resolved
  /\ call.model_name = None
  /\ Len(CatalogEntries) = 2
  /\ StrLess(CatalogEntries[2].name, CatalogEntries[1].name)
  /\ call.select = 1
  /\ ret.shown = <<(<<CatalogEntries[2].name, CatalogEntries[1].name>>)>>
  /\ ret.ok
  /\ ret.value = CatalogEntries[2].hf

\* C9: a failed create_tokeniser tells its cause: a transport failure gives
\* the fetch context over a transport cause with the URL when known, a
\* rejecting status gives it over a status cause with the code and status
\* text, and a tokenizer.json that does not load gives the initialising
\* error; the three differ.
C9_AcquisitionErrorsDiffer ==
  (Acquired /\ call.build /\ ~ret.ok)
  => LET requested == call.cached = None
         unloadable == \/ IsSome(call.cached) /\ ~Unwrap(call.cached).valid
                       \/ requested /\ call.net.kind = "ok" /\ ~call.net.artifact.valid
     IN /\ (requested /\ call.net.kind = "transport") =>
             /\ Len(ret.err) = 2
             /\ ret.err[1].msg = "fetching tokeniser file"
             /\ ret.err[2].msg = "request error: transport"
             /\ ret.err[2].url = call.net.url
        /\ (requested /\ call.net.kind = "status") =>
             /\ Len(ret.err) = 2
             /\ ret.err[1].msg = "fetching tokeniser file"
             /\ ret.err[2].msg = "request error: status"
             /\ ret.err[2].code = call.net.code
             /\ ret.err[2].text = call.net.text
        /\ unloadable => ret.err = <<Layer("Initialising tokeniser")>>

C9_Witness ==
  /\ Acquired
  /\ call.build
  /\ ~ret.ok
  /\ call.cached = None
  /\ call.net.kind = "status"
  /\ ret.err[2].code = 404
  /\ ret.err[2].text = "Not Found"

\* The descriptions the core operations put around a lower-level failure.
Contexts ==
  {"Reading models JSON file", "Parsing models JSON file", "Getting user model choice",
   "building API", "fetching tokeniser file", "Initialising tokeniser", "Encoding prompt"}

\* C10: an error of load_model_name_map, get_repo_id, create_tokeniser or
\* count_tokens that describes a lower-level failure keeps that failure as
\* the cause under the description.
C10_CauseKept ==
  (/\ call.op \in {"get_repo_id", "create_tokeniser", "count_tokens"}
   /\ ~ret.ok
   /\ ret.err[1].msg \in Contexts)
  => Len(ret.err) >= 2

\* The state right after load_model_name_map returned.
Loaded == call.op = "load_model_name_map"

\* C11: load_model_name_map has three outcomes: an unreadable file fails
\* under the context "Reading models JSON file"; a malformed file fails
\* under "Parsing models JSON file" with a description that carries the
\* location; a well-formed list succeeds, with an empty registry and a
\* warning for no entries and a non-empty registry, of the names listed,
\* and no warning otherwise.
C11_LoadOutcomes ==
  Loaded =>
    /\ call.file.kind = "unreadable" =>
         /\ ~ret.ok
         /\ Len(ret.err) = 2
         /\ ret.err[1].msg = "Reading models JSON file"
    /\ call.file.kind = "invalid" =>
         /\ ~ret.ok
         /\ Len(ret.err) = 2
         /\ ret.err[1].msg = "Parsing models JSON file"
         /\ ret.err[2].msg = "missing field hf"
         /\ ret.err[2].at = call.file.at
    /\ call.file.kind = "json" =>
         /\ ret.ok
         /\ ret.err = <<>>
         /\ DOMAIN ret.map = CatalogNames
         /\ ret.warned = (CatalogEntries = <<>>)
         /\ (DOMAIN ret.map = {}) = (CatalogEntries = <<>>)

C11_Witness ==
  /\ Loaded
  /\ call.file.kind = "json"
  /\ CatalogEntries = <<>>
  /\ ret.ok
  /\ ret.warned
  /\ DOMAIN ret.map = {}

\* The state right after get_prompt returned.
Prompted == call.op = "get_prompt"

\* C12: get_prompt takes the content of the file when a file is given (the
\* inline string is then ignored), the inline string otherwise, and fails
\* with neither or with a file it cannot read; the text taken is rejected
\* when it is empty or whitespace only, or too large (a file over
\* 10,485,760 bytes, a text over 20,048,000 bytes), and returned unchanged
\* otherwise; count_tokens is never called with an empty or oversized prompt.
C12_PromptReference ==
  /\ Prompted =>
       IF call.file = None /\ call.prompt = None THEN ~ret.ok
       ELSE IF IsSome(call.file) /\ ~(Unwrap(call.file).meta /\ Unwrap(call.file).read)
       THEN ~ret.ok
       ELSE
         LET chosen == IF IsSome(call.file) THEN Unwrap(call.file).text
                       ELSE Unwrap(call.prompt)
             tooLarge == \/ IsSome(call.file) /\ chosen.len > 10485760
                         \/ chosen.len > 20048000
         IN IF chosen.len = 0 \/ chosen.blank \/ tooLarge
            THEN ~ret.ok
            ELSE ret.ok /\ ret.value = chosen /\ prompt = Some(chosen)
  /\ call.op = "count_tokens" =>
       /\ call.prompt.len > 0
       /\ ~call.prompt.blank
       /\ call.prompt.len <= 20048000

C12_Witness ==
  /\ Prompted
  /\ IsSome(call.file)
  /\ IsSome(call.prompt)
  /\ Unwrap(call.file).text # Unwrap(call.prompt)
  /\ ~Unwrap(call.prompt).blank
  /\ Unwrap(call.prompt).len <= 20048000
  /\ ret.ok
  /\ ret.value = Unwrap(call.file).text

\* The state right after count_tokens returned.
Counted == call.op = "count_tokens"

\* C13 as stated: count_tokens on the empty string returns 0 whenever the
\* tokenizer accepts the input.
C13_EmptyCountsZero ==
  (Counted /\ call.prompt.len = 0 /\ ret.ok) => ret.value = 0

\* C13 as amended: count_tokens encodes with special tokens included, so on
\* the empty string it returns the number of special tokens the tokenizer
\* adds (0 only for a tokenizer that adds none); it fails exactly when
\* encode_fast fails, whatever the length of the input.
C13_EmptyCountsSpecials ==
  Counted =>
    /\ ret.ok = call.enc
    /\ (ret.ok /\ call.prompt.len = 0) => ret.value = call.tokeniser.specials
    /\ ret.ok => ret.value >= call.tokeniser.specials
    /\ ~ret.ok => ret.err = <<Layer("Encoding prompt")>>

C13_Witness ==
  /\ Counted
  /\ call.prompt.len = 0
  /\ call.tokeniser.specials = 1
  /\ ret.ok
  /\ ret.value = 1

\* C14: for a fixed model file and a fixed requested name, two calls of
\* get_repo_id that both fail with "No model matching" carry the same
\* suggested name, ties at the maximum score included: the suggestion does
\* not depend on the iteration order of the map.
C14_SuggestionIsDeterministic ==
  [][(/\ call.op = "get_repo_id"
      /\ call'.op = "get_repo_id"
      /\ call'.file = call.file
      /\ call'.model_name = call.model_name
      /\ IsNoMatchingModelError(ret.err)
      /\ IsNoMatchingModelError(ret'.err))
     => ret'.err[1].hint = ret.err[1].hint]_vars

\* The index of the last catalog entry that carries the name.
LastEntryNamed(name) ==
  CHOOSE i \in DOMAIN CatalogEntries :
    /\ CatalogEntries[i].name = name
    /\ \A j \in DOMAIN CatalogEntries : CatalogEntries[j].name = name => j <= i

\* C15: when the catalog lists two or more entries with the same name,
\* loading succeeds without error or warning, the registry holds each name
\* once (the chooser shows every name exactly once), and get_repo_id of a
\* listed name returns the hf of the last entry with that name.
C15_LastWriteWins ==
  (/\ Resolved
   /\ call.file.kind = "json"
   /\ ~UniqueNames)
  => /\ ~ret.warned
     /\ ret.events # <<"load_model_name_map">>
     /\ ~IsEmptyCatalogError(ret.err)
     /\ (IsSome(call.model_name) /\ Requested \in CatalogNames) =>
          /\ ret.ok
          /\ ret.err = <<>>
          /\ ret.value = CatalogEntries[LastEntryNamed(Requested)].hf
     /\ call.model_name = None =>
          /\ Len(ret.shown) = 1
          /\ Len(ret.shown[1]) = Cardinality(CatalogNames)
          /\ {ret.shown[1][k] : k \in DOMAIN ret.shown[1]} = CatalogNames
          /\ ret.ok => \E n \in CatalogNames :
                         ret.value = CatalogEntries[LastEntryNamed(n)].hf

C15_Witness ==
  /\ Resolved
  /\ call.file.kind = "json"
  /\ Len(CatalogEntries) = 2
  /\ CatalogEntries[1].name = CatalogEntries[2].name
  /\ CatalogEntries[1].hf # CatalogEntries[2].hf
  /\ call.model_name = Some(CatalogEntries[1].name)
  /\ ret.ok
  /\ ret.value = CatalogEntries[2].hf

====
